---------------------------- MODULE Spec2Model ----------------------------
(***************************************************************************)
(* Model of tools/pr_checker/check_dns.py: the pull-request DNS checker of *)
(* the public suffix list.  Strings are sequences of one-character         *)
(* strings, so that stripping, prefix tests and the regular expression are *)
(* computed character by character as the Python code computes them.       *)
(***************************************************************************)
EXTENDS Integers, Sequences, FiniteSets, TLC

VARIABLES
    pc,                  \* position of main / check_dns_pr
    current_file,        \* content of the file named current_filename
    pull_request_file,   \* content of the file named pull_request_filename
    pr_id,               \* the pr_id argument
    current_rules,       \* main: current_rules
    pull_request_rules,  \* main: pull_request_rules
    all_good,            \* main: all_good
    removed,             \* main: removed
    added,               \* main: added
    pending,             \* rules the running for loop has not yet visited
    rule,                \* check_dns_pr: rule
    fqdn,                \* what rule2fqdn(rule) did in the running check
    pslname,             \* check_dns_pr: pslname (the name of the TXT query)
    answer,              \* what dns.resolver.resolve gave for the last query
    outcome,             \* return value of the last check_dns_pr call
    log,                 \* history of queries issued and check_dns_pr returns
    exit_status,         \* process exit status, -1 while running
    error                \* the exception that ended the process, or "none"

vars == <<pc, current_file, pull_request_file, pr_id, current_rules,
          pull_request_rules, all_good, removed, added, pending, rule,
          fqdn, pslname, answer, outcome, log, exit_status, error>>

-----------------------------------------------------------------------------
(* Bounds of the model. *)

MaxLines == 2      \* lines per rule file in Spec
MaxRuleLen == 3    \* characters per rule in SpecRule
MaxLineLen == 2    \* characters per line in SpecRead
MaxReadLines == 2  \* lines per file in SpecRead
MaxTxtAnswer == 2  \* TXT values per answer in SpecTxt

-----------------------------------------------------------------------------
(* Strings. *)

NoString == <<>>

SeqsUpTo(S, n) == UNION {[1..k -> S] : k \in 0..n}

\* str.strip() removes these (and the other Unicode white space) at both ends
Whitespace == {" ", "\t", "\n", "\r"}

RECURSIVE lstrip(_)
lstrip(s) ==
    IF s # <<>> /\ Head(s) \in Whitespace THEN lstrip(Tail(s)) ELSE s

RECURSIVE rstrip(_)
rstrip(s) ==
    IF s # <<>> /\ s[Len(s)] \in Whitespace
    THEN rstrip(SubSeq(s, 1, Len(s) - 1))
    ELSE s

\* variant: lstrip() in the place of strip()
stripLeftOnly(s) == lstrip(s)

strip(s) == rstrip(lstrip(s))

startswith(s, prefix) ==
    /\ Len(s) >= Len(prefix)
    /\ SubSeq(s, 1, Len(prefix)) = prefix

\* illegal_char in rule, for the characters of "!*"
IllegalChars == {"!", "*"}

contains(s, chars) == \E i \in 1..Len(s) : s[i] \in chars

-----------------------------------------------------------------------------
(* read_rules *)

NoFile == [exists |-> FALSE, lines |-> <<>>]

File(lines) == [exists |-> TRUE, lines |-> lines]

\* `for line in f`: every line comes with its line terminator
FileLine(content) == content \o <<"\n">>

RECURSIVE read_loop(_, _)
read_loop(lines, rules) ==
    IF lines = <<>>
    THEN rules
    ELSE LET line == strip(FileLine(Head(lines)))
         IN  IF line = <<>>
             THEN read_loop(Tail(lines), rules)
             ELSE IF startswith(line, <<"/", "/">>)
                  THEN read_loop(Tail(lines), rules)
                  ELSE read_loop(Tail(lines), rules \cup {line})

read_rules(file) == read_loop(file.lines, {})

-----------------------------------------------------------------------------
(* rule2fqdn *)

NotCalled == [status |-> "none", value |-> <<>>]

Returned(value) == [status |-> "returned", value |-> value]

AssertionError == [status |-> "raised", value |-> <<>>]

\* variant: without the check for illegal characters
rule2fqdnNoAssert(r) ==
    LET r1 == IF startswith(r, <<"*", ".">>) THEN SubSeq(r, 3, Len(r)) ELSE r
        r2 == IF startswith(r1, <<"!">>) THEN Tail(r1) ELSE r1
    IN  Returned(r2)

\* variant: the second prefix is cut without the startswith test
rule2fqdnAlwaysCut(r) ==
    LET r1 == IF startswith(r, <<"*", ".">>) THEN SubSeq(r, 3, Len(r)) ELSE r
        r2 == IF r1 # <<>> THEN Tail(r1) ELSE r1
    IN  IF contains(r2, IllegalChars) THEN AssertionError ELSE Returned(r2)

rule2fqdn(r) ==
    LET r1 == IF startswith(r, <<"*", ".">>) THEN SubSeq(r, 3, Len(r)) ELSE r
        r2 == IF startswith(r1, <<"!">>) THEN Tail(r1) ELSE r1
    IN  IF contains(r2, IllegalChars) THEN AssertionError ELSE Returned(r2)

\* dns.name.from_text raises EmptyLabel for a name with an empty label that
\* is not the root name "."
EmptyLabel(text) ==
    /\ text # <<".">>
    /\ \E i \in 1..Len(text) : text[i] = "." /\ (i = 1 \/ text[i - 1] = ".")

PslPrefix == <<"_", "p", "s", "l", ".">>

-----------------------------------------------------------------------------
(* check_dns_pr: the TXT values *)

\* the regular expression up to the group, as re reads it: \" is a quote
\* and the unescaped . of github.com is the any-character atom
PatternPrefix ==
    <<"\"", "h", "t", "t", "p", "s", ":", "/", "/", "g", "i", "t", "h", "u",
      "b", ".", "c", "o", "m", "/", "p", "u", "b", "l", "i", "c", "s", "u",
      "f", "f", "i", "x", "/", "l", "i", "s", "t", "/", "p", "u", "l", "l",
      "/">>

Digits == {"0", "1", "2", "3", "4", "5", "6", "7", "8", "9"}

DigitValue(d) ==
    CASE d = "0" -> 0 [] d = "1" -> 1 [] d = "2" -> 2 [] d = "3" -> 3
      [] d = "4" -> 4 [] d = "5" -> 5 [] d = "6" -> 6 [] d = "7" -> 7
      [] d = "8" -> 8 [] d = "9" -> 9

AtomMatches(atom, ch) == IF atom = "." THEN ch # "\n" ELSE ch = atom

\* number of digits of s from position i on: the greedy \d+
RECURSIVE DigitRun(_, _)
DigitRun(s, i) ==
    IF i <= Len(s) /\ s[i] \in Digits THEN 1 + DigitRun(s, i + 1) ELSE 0

NoMatch == [matched |-> FALSE, group1 |-> <<>>]

\* re.match: anchored at the start of the string only
re_match(s) ==
    LET n == Len(PatternPrefix)
        d == DigitRun(s, n + 1)
    IN  IF /\ Len(s) >= n
           /\ \A i \in 1..n : AtomMatches(PatternPrefix[i], s[i])
           /\ d >= 1
           /\ Len(s) >= n + d + 1
           /\ s[n + d + 1] = "\""
        THEN [matched |-> TRUE, group1 |-> SubSeq(s, n + 1, n + d)]
        ELSE NoMatch

RECURSIVE int(_)
int(digits) ==
    IF digits = <<>>
    THEN 0
    ELSE 10 * int(SubSeq(digits, 1, Len(digits) - 1))
         + DigitValue(digits[Len(digits)])

\* variant: a value naming another pull request does not end the loop
RECURSIVE answer_loopNoReturn(_, _)
answer_loopNoReturn(rdatas, id) ==
    IF rdatas = <<>>
    THEN FALSE
    ELSE LET match == re_match(Head(rdatas))
         IN  IF match.matched /\ int(match.group1) = id
             THEN TRUE
             ELSE answer_loopNoReturn(Tail(rdatas), id)

RECURSIVE answer_loop(_, _)
answer_loop(rdatas, id) ==
    IF rdatas = <<>>
    THEN FALSE
    ELSE LET match == re_match(Head(rdatas))
         IN  IF match.matched
             THEN int(match.group1) = id
             ELSE answer_loop(Tail(rdatas), id)

\* variants: one handler less, one handler more
CaughtWithoutNXDOMAIN == {"NoNameservers", "NoAnswer"}

CaughtEverything == {"NoNameservers", "NXDOMAIN", "NoAnswer", "LifetimeTimeout"}

\* the three exceptions check_dns_pr catches
Caught == {"NoNameservers", "NXDOMAIN", "NoAnswer"}

\* a reply of dns.resolver.resolve: an exception, or the TXT values
Raises(exc) == [exc |-> exc, rdatas |-> <<>>]

Answer(rdatas) == [exc |-> "none", rdatas |-> rdatas]

NoReply == [exc |-> "unset", rdatas |-> <<>>]

-----------------------------------------------------------------------------
(* main *)

\* variants: nothing subtracted, operands exchanged
differenceKeepsAll(a, b) == a

differenceSwapped(a, b) == b \ a

difference(a, b) == a \ b

\* `if not check_dns_pr(rule, pr_id): all_good = False`
\* variant: all_good = check_dns_pr(rule, pr_id)
fold_all_goodLastWins(good, result) == result

fold_all_good(good, result) == IF ~result THEN FALSE ELSE good

\* `if not all_good: exit(1)`, and status 0 at the end of main otherwise
exit_code(good) == IF ~good THEN 1 ELSE 0

\* the for loop has visited every element of the set
exhausted(rest) == rest = {}

LoopPc(group) == IF group = "removed" THEN "removed_loop" ELSE "added_loop"

QueryPc(group) == IF group = "removed" THEN "removed_query" ELSE "added_query"

QueryEvent(group, r, name) ==
    [ev |-> "query", group |-> group, rule |-> r, name |-> name]

ReturnEvent(group, r, exc, result) ==
    [ev |-> "return", group |-> group, rule |-> r, exc |-> exc,
     result |-> result]

\* an uncaught exception leaves main(): traceback, exit status 1
Fatal(exc) ==
    /\ pc' = "fatal"
    /\ error' = exc
    /\ exit_status' = 1

ReadCurrent ==
    /\ pc = "read_current"
    /\ IF current_file.exists
       THEN /\ current_rules' = read_rules(current_file)
            /\ pc' = "read_pull_request"
            /\ UNCHANGED <<error, exit_status>>
       ELSE /\ Fatal("FileNotFoundError")
            /\ UNCHANGED current_rules
    /\ UNCHANGED <<current_file, pull_request_file, pr_id, pull_request_rules,
                   all_good, removed, added, pending, rule, fqdn, pslname, answer,
                   outcome, log>>

ReadPullRequest ==
    /\ pc = "read_pull_request"
    /\ IF pull_request_file.exists
       THEN /\ pull_request_rules' = read_rules(pull_request_file)
            /\ pc' = "begin_removed"
            /\ UNCHANGED <<error, exit_status>>
       ELSE /\ Fatal("FileNotFoundError")
            /\ UNCHANGED pull_request_rules
    /\ UNCHANGED <<current_file, pull_request_file, pr_id, current_rules,
                   all_good, removed, added, pending, rule, fqdn, pslname, answer,
                   outcome, log>>

BeginRemoved ==
    /\ pc = "begin_removed"
    /\ all_good' = TRUE
    /\ removed' = difference(current_rules, pull_request_rules)
    /\ pending' = removed'
    /\ pc' = "removed_loop"
    /\ UNCHANGED <<current_file, pull_request_file, pr_id, current_rules,
                   pull_request_rules, added, rule, fqdn, pslname, answer, outcome,
                   log, exit_status, error>>

\* check_dns_pr from its call to the blocking dns.resolver.resolve
Call(group) ==
    /\ pc = LoopPc(group)
    /\ ~exhausted(pending)
    /\ \E r \in pending :
          /\ pending' = pending \ {r}
          /\ rule' = r
          /\ IF EmptyLabel(r)
             THEN /\ Fatal("EmptyLabel")
                  /\ fqdn' = NotCalled
                  /\ UNCHANGED <<pslname, log>>
             ELSE /\ fqdn' = rule2fqdn(r)
                  /\ IF fqdn'.status = "raised"
                     THEN /\ Fatal("AssertionError")
                          /\ UNCHANGED <<pslname, log>>
                     ELSE IF EmptyLabel(PslPrefix \o fqdn'.value)
                          THEN /\ Fatal("EmptyLabel")
                               /\ UNCHANGED <<pslname, log>>
                          ELSE /\ pslname' = PslPrefix \o fqdn'.value
                               /\ pc' = QueryPc(group)
                               /\ log' = Append(log,
                                     QueryEvent(group, r, pslname'))
                               /\ UNCHANGED <<error, exit_status>>
    /\ UNCHANGED <<current_file, pull_request_file, pr_id, current_rules,
                   pull_request_rules, all_good, removed, added, answer,
                   outcome>>

\* check_dns_pr from the reply of dns.resolver.resolve to its return, and
\* the update of all_good by the caller
Return(group, reply) ==
    /\ pc = QueryPc(group)
    /\ answer' = reply
    /\ IF reply.exc # "none" /\ reply.exc \notin Caught
       THEN /\ Fatal(reply.exc)
            /\ UNCHANGED <<outcome, all_good, log>>
       ELSE /\ outcome' = IF reply.exc \in Caught
                          THEN FALSE
                          ELSE answer_loop(reply.rdatas, pr_id)
            /\ all_good' = fold_all_good(all_good, outcome')
            /\ log' = Append(log, ReturnEvent(group, rule, reply.exc,
                                          outcome'))
            /\ pc' = LoopPc(group)
            /\ UNCHANGED <<error, exit_status>>
    /\ UNCHANGED <<current_file, pull_request_file, pr_id, current_rules,
                   pull_request_rules, removed, added, pending, rule, fqdn,
                   pslname>>

BeginAdded ==
    /\ pc = "removed_loop"
    /\ exhausted(pending)
    /\ added' = difference(pull_request_rules, current_rules)
    /\ pending' = added'
    /\ pc' = "added_loop"
    /\ UNCHANGED <<current_file, pull_request_file, pr_id, current_rules,
                   pull_request_rules, all_good, removed, rule, fqdn, pslname,
                   answer, outcome, log, exit_status, error>>

Exit ==
    /\ pc = "added_loop"
    /\ exhausted(pending)
    /\ exit_status' = exit_code(all_good)
    /\ pc' = "done"
    /\ UNCHANGED <<current_file, pull_request_file, pr_id, current_rules,
                   pull_request_rules, all_good, removed, added, pending,
                   rule, fqdn, pslname, answer, outcome, log, error>>

-----------------------------------------------------------------------------
(* Inputs *)

PrIds == {1, 10}

Quote == <<"\"">>

\* the text the pattern is written for, from the opening quote to the last
\* slash, and the same with another character in the place of the dot
UrlText == PatternPrefix

UrlNoDot == [PatternPrefix EXCEPT ![16] = "x"]

TxtFor1 == UrlText \o <<"1">> \o Quote

TxtFor10 == UrlText \o <<"1", "0">> \o Quote

TxtOther == <<"\"", "v", "=", "s", "p", "f", "1", "\"">>

DriverTxt == {TxtFor1, TxtFor10, TxtOther}

TxtValues ==
    DriverTxt \cup
    { UrlText \o <<"0", "1">> \o Quote,
      UrlText \o <<"1", "1">> \o Quote,
      UrlText \o <<"1">> \o Quote \o <<" ">> \o TxtOther,
      UrlText \o <<"1">>,
      UrlText \o Quote,
      UrlText \o <<"1", "x">> \o Quote,
      UrlNoDot \o <<"1">> \o Quote,
      <<" ">> \o TxtFor1,
      Tail(TxtFor1),
      TxtOther \o <<" ">> \o TxtFor1 }

\* exceptions of dns.resolver.resolve: the last is one that check_dns_pr has
\* no handler for
Exceptions == {"NoNameservers", "NXDOMAIN", "NoAnswer", "LifetimeTimeout"}

AnswersOf(values, n) == {Answer(a) : a \in SeqsUpTo(values, n) \ {<<>>}}

Replies == {Raises(e) : e \in Exceptions} \cup {Answer(<<v>>) : v \in DriverTxt}

TxtReplies == {Raises(e) : e \in Exceptions} \cup AnswersOf(TxtValues, MaxTxtAnswer)

DriverLines ==
    { <<"a">>, <<"*", ".", "b">>, <<"!", "c">>, <<"a", "*">> }

DriverFiles == {NoFile} \cup {File(l) : l \in SeqsUpTo(DriverLines, MaxLines)}

RuleAlphabet == {"a", ".", "*", "!"}

LineAlphabet == {"a", "/", " "}

InitCommon ==
    /\ pc = "read_current"
    /\ pr_id \in PrIds
    /\ current_rules = {}
    /\ pull_request_rules = {}
    /\ all_good = TRUE
    /\ removed = {}
    /\ added = {}
    /\ pending = {}
    /\ rule = NoString
    /\ fqdn = NotCalled
    /\ pslname = NoString
    /\ answer = NoReply
    /\ outcome = FALSE
    /\ log = <<>>
    /\ exit_status = -1
    /\ error = "none"

Init ==
    /\ current_file \in DriverFiles
    /\ pull_request_file \in DriverFiles
    /\ InitCommon

RemovedCall == Call("removed")

RemovedReturn == \E reply \in Replies : Return("removed", reply)

AddedCall == Call("added")

AddedReturn == \E reply \in Replies : Return("added", reply)

Next ==
    \/ ReadCurrent
    \/ ReadPullRequest
    \/ BeginRemoved
    \/ RemovedCall
    \/ RemovedReturn
    \/ BeginAdded
    \/ AddedCall
    \/ AddedReturn
    \/ Exit

Spec == Init /\ [][Next]_vars

-----------------------------------------------------------------------------
(* rule2fqdn on every rule of bounded length: a run whose only changed     *)
(* rule is that rule, removed or added.                                    *)

RuleStrings == SeqsUpTo(RuleAlphabet, MaxRuleLen)

InitRule ==
    /\ \E r \in RuleStrings :
          \/ current_file = File(<<r>>) /\ pull_request_file = File(<<>>)
          \/ current_file = File(<<>>) /\ pull_request_file = File(<<r>>)
    /\ InitCommon

SpecRule == InitRule /\ [][Next]_vars

-----------------------------------------------------------------------------
(* read_rules on every file of bounded size. *)

ReadLines ==
    SeqsUpTo(LineAlphabet, MaxLineLen)
    \cup { <<" ", "/", "/">>, <<"/", "/", "a">>, <<"a", " ", "a">>,
           <<"\t", "a", "/", "/", "\r">>, <<" ", "/", "/", "a", " ">> }

ReadFiles == {File(l) : l \in SeqsUpTo(ReadLines, MaxReadLines)}

InitRead ==
    /\ \/ current_file \in ReadFiles /\ pull_request_file = NoFile
       \/ current_file = File(<<>>) /\ pull_request_file \in ReadFiles
       \/ current_file = NoFile /\ pull_request_file = NoFile
    /\ InitCommon

NextRead == ReadCurrent \/ ReadPullRequest

SpecRead == InitRead /\ [][NextRead]_vars

-----------------------------------------------------------------------------
(* check_dns_pr on every answer of bounded length over TxtValues. *)

InitTxt ==
    /\ \/ /\ current_file = File(<< <<"a">>, <<"!", "c">> >>)
          /\ pull_request_file = File(<< <<"!", "c">> >>)
       \/ /\ current_file = File(<< <<"a">> >>)
          /\ pull_request_file = File(<< <<"*", ".", "b">>, <<"a">> >>)
    /\ InitCommon

RemovedReturnTxt == \E reply \in TxtReplies : Return("removed", reply)

AddedReturnTxt == \E reply \in TxtReplies : Return("added", reply)

NextTxt ==
    \/ ReadCurrent
    \/ ReadPullRequest
    \/ BeginRemoved
    \/ RemovedCall
    \/ RemovedReturnTxt
    \/ BeginAdded
    \/ AddedCall
    \/ AddedReturnTxt
    \/ Exit

SpecTxt == InitTxt /\ [][NextTxt]_vars

-----------------------------------------------------------------------------
(* Properties *)

Queries == {i \in DOMAIN log : log[i].ev = "query"}

Returns == {i \in DOMAIN log : log[i].ev = "return"}

\* before \ after and after \ before, from the two rule sets main has read
RemovedRules == current_rules \ pull_request_rules

AddedRules == pull_request_rules \ current_rules

ChangedRules == RemovedRules \cup AddedRules

Diffed == pc \notin {"read_current", "read_pull_request", "begin_removed"}

ReturnedTrue(r) ==
    /\ \E i \in Returns : log[i].rule = r
    /\ \A i \in Returns : log[i].rule = r => log[i].result

\* C1: when main runs to its end without a fatal error, the exit status is 0
\* if check_dns_pr returned true for every rule of the symmetric difference
\* of the two rule sets (none, when the sets are equal) and 1 otherwise.
C1_ExitStatus ==
    pc = "done" =>
        /\ exit_status \in {0, 1}
        /\ exit_status = 0 <=> \A r \in ChangedRules : ReturnedTrue(r)
        /\ ChangedRules = {} => exit_status = 0
        /\ (\E i \in Returns : ~log[i].result) => exit_status = 1

\* a run that ended with status 1 although the last check returned true
C1_Witness ==
    /\ pc = "done"
    /\ exit_status = 1
    /\ \E i, j \in Returns : i < j /\ ~log[i].result /\ log[j].result
    /\ log[Len(log)].result

\* C2: the rules checked are exactly before \ after (in the loop over
\* removed) and after \ before (in the loop over added), each once whatever
\* the earlier checks returned, and never a rule of both sets; with equal
\* sets no check is made.
C2_ChecksExactlyTheChanges ==
    Diffed =>
        /\ \A i \in DOMAIN log :
              /\ log[i].group = "removed" => log[i].rule \in RemovedRules
              /\ log[i].group = "added" => log[i].rule \in AddedRules
              /\ log[i].rule \notin current_rules \cap pull_request_rules
        /\ \A i, j \in Queries : log[i].rule = log[j].rule => i = j
        /\ \A i, j \in Returns : log[i].rule = log[j].rule => i = j
        /\ current_rules = pull_request_rules => log = <<>>
        /\ pc = "done" =>
              /\ {log[i].rule : i \in Queries} = ChangedRules
              /\ {log[i].rule : i \in Returns} = ChangedRules

\* a finished run with a removed, an added and an unchanged rule, whose
\* first check returned false
C2_Witness ==
    /\ pc = "done"
    /\ RemovedRules # {}
    /\ AddedRules # {}
    /\ current_rules \cap pull_request_rules # {}
    /\ ~log[2].result

\* the resolver failures the specification calls expected
ClassifiedFailures == {"NoNameservers", "NXDOMAIN", "NoAnswer"}

LoopPcs == {"removed_loop", "added_loop"}

QueryPcs == {"removed_query", "added_query"}

\* C5: a TXT query that fails with no-nameserver, NXDOMAIN or no-answer makes
\* check_dns_pr return false and raises nothing: the run is not ended by it,
\* the driver still checks every other changed rule, and a run that reaches
\* its end after such a failure ends with exit status 1.
C5_ClassifiedFailureIsFalse ==
    /\ error \notin ClassifiedFailures
    /\ answer.exc \in ClassifiedFailures =>
          /\ ~outcome
          /\ ~all_good
          /\ exit_status # 0
          /\ \E i \in Returns :
                /\ log[i].exc = answer.exc
                /\ ~log[i].result
                /\ log[i - 1].ev = "query"
                /\ log[i - 1].rule = log[i].rule
          /\ pc \in LoopPcs =>
                /\ error = "none"
                /\ ENABLED Next
                /\ log[Len(log)] =
                      ReturnEvent(log[Len(log)].group, rule, answer.exc, FALSE)
    /\ \A i \in Returns : log[i].exc \in ClassifiedFailures => ~log[i].result
    /\ (pc = "done" /\ \E i \in Returns : log[i].exc \in ClassifiedFailures) =>
          /\ exit_status = 1
          /\ {log[i].rule : i \in Returns} = ChangedRules

\* a finished run in which the first check met NXDOMAIN and a later one
\* returned true
C5_Witness ==
    /\ pc = "done"
    /\ exit_status = 1
    /\ Len(log) >= 4
    /\ log[2].exc = "NXDOMAIN"
    /\ log[Len(log)].result

\* C6: a resolver error other than the three expected ones is not turned
\* into a false outcome: it ends the run at once, no return is recorded for
\* the rule, no further rule is checked, and the exit status is not 0.
C6_UnexpectedErrorIsFatal ==
    answer.exc \notin ClassifiedFailures \cup {"none", "unset"} =>
        /\ pc = "fatal"
        /\ error = answer.exc
        /\ exit_status \notin {0, -1}
        /\ log # <<>>
        /\ log[Len(log)] = QueryEvent(log[Len(log)].group, rule, pslname)
        /\ ~ENABLED Next

\* the second check of a run met a timeout while rules were still waiting
C6_Witness ==
    /\ pc = "fatal"
    /\ error = "LifetimeTimeout"
    /\ answer.exc = "LifetimeTimeout"
    /\ Len(log) = 3
    /\ pending # {}

\* C9: queries are issued one at a time, each returning before the next is
\* issued, and every rule of before \ after has been checked and has
\* returned before the first rule of after \ before is queried.
C9_RemovedBeforeAdded ==
    Diffed =>
        /\ \A i \in DOMAIN log :
              IF i % 2 = 1
              THEN log[i].ev = "query"
              ELSE /\ log[i].ev = "return"
                   /\ log[i - 1].ev = "query"
                   /\ log[i].rule = log[i - 1].rule
        /\ pc \in QueryPcs => (log # <<>> /\ log[Len(log)].ev = "query")
        /\ (log # <<>> /\ log[Len(log)].ev = "query") =>
              pc \in QueryPcs \cup {"fatal"}
        /\ \A i, j \in DOMAIN log :
              (log[i].rule \in AddedRules /\ log[j].rule \in RemovedRules)
                  => j < i
        /\ \A i \in Queries :
              log[i].rule \in AddedRules =>
                  \A r \in RemovedRules :
                      \E j \in Returns : j < i /\ log[j].rule = r

\* two removed rules were checked, then an added rule
C9_Witness ==
    /\ Len(log) = 6
    /\ log[1].rule \in RemovedRules
    /\ log[3].rule \in RemovedRules
    /\ log[5].rule \in AddedRules
    /\ log[6].ev = "return"

Markers == {"!", "*"}

\* r has no `*.` and no `!` anywhere
WithoutMarkers(r) ==
    /\ \A i \in 1..Len(r) : r[i] # "!"
    /\ \A i \in 1..(Len(r) - 1) : ~(r[i] = "*" /\ r[i + 1] = ".")

\* C7 as stated: rule2fqdn returns every rule without `*.` or `!` markers
\* unchanged.
C7_WithoutMarkersUnchanged ==
    (fqdn.status # "none" /\ WithoutMarkers(rule)) => fqdn = Returned(rule)

\* C7, amended: rule2fqdn returns every rule that contains neither `!` nor
\* `*` unchanged; a rule without a leading `*.` or `!` that contains `!` or
\* `*` further on is not returned: the assertion fails.
C7_MarkerFreeUnchanged ==
    fqdn.status # "none" =>
        /\ ~contains(rule, Markers) => fqdn = Returned(rule)
        /\ ( /\ ~startswith(rule, <<"*", ".">>)
             /\ ~startswith(rule, <<"!">>)
             /\ contains(rule, Markers) ) => fqdn.status = "raised"

\* rule2fqdn was called on a.a and returned it
C7_Witness ==
    /\ rule = <<"a", ".", "a">>
    /\ fqdn = Returned(rule)
    /\ pc \in QueryPcs

\* what is left of r once a leading `*.` and then a leading `!` are removed
Unmarked(r) ==
    LET wild == IF Len(r) >= 2 /\ r[1] = "*" /\ r[2] = "." THEN 2 ELSE 0
        bang == IF Len(r) > wild /\ r[wild + 1] = "!" THEN 1 ELSE 0
    IN  [i \in 1..(Len(r) - wild - bang) |-> r[i + wild + bang]]

\* C8: rule2fqdn removes a leading `*.` and then a leading `!`; it returns
\* the remainder only if that holds neither `!` nor `*` and fails the
\* assertion otherwise.  So every TXT query is for `_psl.` followed by a
\* marker-free name, and a malformed rule ends the run before its query is
\* issued, with an exit status that is not 0.
C8_NoMarkerIsQueried ==
    /\ fqdn.status # "none" =>
          IF contains(Unmarked(rule), Markers)
          THEN /\ fqdn.status = "raised"
               /\ pc = "fatal"
               /\ error = "AssertionError"
               /\ exit_status \notin {0, -1}
               /\ \A i \in DOMAIN log : log[i].rule # rule
          ELSE fqdn = Returned(Unmarked(rule))
    /\ fqdn.status = "returned" => ~contains(fqdn.value, Markers)
    /\ \A i \in Queries :
          /\ log[i].name = PslPrefix \o Unmarked(log[i].rule)
          /\ ~contains(log[i].name, Markers)
    /\ pc \in QueryPcs =>
          /\ pslname = PslPrefix \o Unmarked(rule)
          /\ ~contains(pslname, Markers)

\* the doubly marked rule !!a ended the run in rule2fqdn
C8_Witness ==
    /\ rule = <<"!", "!", "a">>
    /\ fqdn.status = "raised"
    /\ pc = "fatal"
    /\ log = <<>>

White == {" ", "\t", "\n", "\r"}

\* s from its first to its last character that is not white space
Trimmed(s) ==
    LET black == {i \in 1..Len(s) : s[i] \notin White}
        first == CHOOSE i \in black : \A j \in black : i <= j
        last == CHOOSE i \in black : \A j \in black : j <= i
    IN  IF black = {} THEN <<>> ELSE SubSeq(s, first, last)

IsComment(t) == Len(t) >= 2 /\ t[1] = "/" /\ t[2] = "/"

RulesOf(file) ==
    { Trimmed(file.lines[i]) : i \in
        {k \in DOMAIN file.lines :
            /\ Trimmed(file.lines[k]) # <<>>
            /\ ~IsComment(Trimmed(file.lines[k]))} }

Clean(rules) ==
    \A t \in rules :
        /\ t # <<>>
        /\ t[1] \notin White
        /\ t[Len(t)] \notin White
        /\ ~IsComment(t)

\* C10: read_rules returns exactly the set of the trimmed lines of the file
\* that are not empty and do not start with `//`: no element is empty,
\* begins or ends with white space or starts with `//`, equal lines give one
\* element, and the trimmed text of every other line is an element.
C10_ReadRules ==
    /\ (pc = "read_pull_request" \/ (pc = "fatal" /\ current_file.exists)) =>
          /\ current_rules = RulesOf(current_file)
          /\ Clean(current_rules)
          /\ Cardinality(current_rules) <= Len(current_file.lines)
    /\ pc = "begin_removed" =>
          /\ pull_request_rules = RulesOf(pull_request_file)
          /\ Clean(pull_request_rules)

\* a file of the comment " //a " and the line "<tab>a//<cr>" was read as the
\* one rule a//
C10_Witness ==
    /\ pc = "begin_removed"
    /\ pull_request_file.lines =
          << <<" ", "/", "/", "a", " ">>, <<"\t", "a", "/", "/", "\r">> >>
    /\ pull_request_rules = {<<"a", "/", "/">>}

Answered == answer.exc = "none"

\* the positions of the answer whose value matches the pattern
Matching == {i \in DOMAIN answer.rdatas : re_match(answer.rdatas[i]).matched}

FirstMatching == CHOOSE i \in Matching : \A j \in Matching : i <= j

\* C3: for an answer with TXT values the outcome is decided by the first
\* value, in the order of the answer, that matches the pattern: true if its
\* number is pr_id, false if it is another number, whatever the later values
\* are; values that do not match are passed over, and with no matching value
\* the outcome is false.
C3_FirstMatchDecides ==
    Answered =>
        /\ Matching = {} => ~outcome
        /\ Matching # {} =>
              outcome = (int(re_match(answer.rdatas[FirstMatching]).group1) = pr_id)
        /\ log # <<>>
        /\ log[Len(log)] = ReturnEvent(log[Len(log)].group, rule, "none", outcome)

\* the outcome is false for an answer whose first value names another pull
\* request and whose second names pr_id
C3_Witness ==
    /\ Answered
    /\ pr_id = 1
    /\ answer.rdatas = <<TxtFor10, TxtFor1>>
    /\ ~outcome
    /\ pc \in LoopPcs

\* the decimal digits of a natural number
RECURSIVE Decimal(_)
Decimal(n) ==
    LET last == CHOOSE d \in Digits : DigitValue(d) = n % 10
    IN  IF n < 10 THEN <<last>> ELSE Decimal(n \div 10) \o <<last>>

\* UrlText begins with the opening quote
ExpectedTxt(id) == UrlText \o Decimal(id) \o Quote

\* C4: the outcome is true only for a TXT value that is exactly
\* "https://github.com/publicsuffix/list/pull/<N>", quotes included and
\* nothing before or after, <N> being pr_id in decimal digits.
C4_OnlyTheExactUrl ==
    (Answered /\ outcome) =>
        /\ Matching # {}
        /\ answer.rdatas[FirstMatching] = ExpectedTxt(pr_id)

=============================================================================
